---- MODULE Spec2Model ----
(***************************************************************************)
(* Model of the vault's integrity ledger (lib/backend/modules/blockchain.ts)*)
(* and of the vault orchestrator (modules/vault.ts) of supernova-git.       *)
(*                                                                         *)
(* Program strings are modelled as flat sequences of tokens (a token is a  *)
(* TLA+ string), so that concatenation is \o and a prefix test is a test   *)
(* on the first tokens.  SHA-256 is modelled as a collision-free symbolic  *)
(* digest that keeps its preimage, preceded by a number of "0" tokens that *)
(* is a deterministic function of the preimage (the proof-of-work reads    *)
(* these leading zeros).                                                   *)
(*                                                                         *)
(* Every async function is cut at its awaits of the network: one step of a *)
(* task is the arrival of a response together with the synchronous code    *)
(* that follows it up to the next request.                                 *)
(***************************************************************************)
EXTENDS Integers, Sequences, FiniteSets, TLC

\* ---------------------------------------------------------------- bounds
MaxTime == 1
MaxBlocks == 2
NumTasks == 2
MaxRestarts == 1
MaxFaults == 1

\* ------------------------------------------------------------- constants
Difficulty == 2
PowMod == 3

NoUser == "nobody"
Users == {"u1"}
TaskIds == 0..NumTasks
UserTasks == 1..NumTasks
DataPool == {<<"d1">>, <<"d2">>}

\* what crypto.randomBytes draws (hex)
Salts == {<<"s1">>}
Ivs == {<<"i1">>}

\* ------------------------------------------------------------ strings
RECURSIVE TokSum(_)
TokVal(t) ==
  CASE t = "0" -> 0 [] t = "1" -> 1 [] t = "2" -> 2 [] t = "3" -> 3
    [] t = "4" -> 4 [] t = "5" -> 5 [] t = "6" -> 6 [] t = "7" -> 7
    [] t = "8" -> 8 [] t = "9" -> 9 [] OTHER -> Len(t)

\* the sum over the tokens of a string, by halves
TokSum(s) ==
  IF Len(s) = 0 THEN 0
  ELSE IF Len(s) = 1 THEN TokVal(s[1])
  ELSE LET h == Len(s) \div 2
       IN  TokSum(SubSeq(s, 1, h)) + TokSum(SubSeq(s, h + 1, Len(s)))

Repeat(tok, n) == [i \in 1..n |-> tok]

StartsWith(s, prefix) ==
  Len(s) >= Len(prefix) /\ SubSeq(s, 1, Len(prefix)) = prefix

\* new Date().toISOString()
IsoString(t) == <<ToString(t)>>

\* ------------------------------------------------------------- hashing
ZeroPrefix(data) ==
  LET k == TokSum(data) % PowMod
  IN  IF k = 0 THEN Repeat("0", 2) ELSE IF k = 1 THEN Repeat("0", 1) ELSE <<>>

calculateHash(data) == ZeroPrefix(data) \o <<"h(">> \o data \o <<")">>

calculateBlockHash(block) ==
  calculateHash(<<ToString(block.index)>> \o block.timestamp \o block.dataHash
                \o block.previousHash \o <<ToString(block.nonce)>>)

WithNonce(block, n) ==
  [index |-> block.index, timestamp |-> block.timestamp, dataHash |-> block.dataHash,
   previousHash |-> block.previousHash, nonce |-> n]

WithHash(block, h) ==
  [index |-> block.index, timestamp |-> block.timestamp, dataHash |-> block.dataHash,
   previousHash |-> block.previousHash, nonce |-> block.nonce, hash |-> h]

RECURSIVE MineFrom(_, _, _)
MineFrom(block, difficulty, nonce) ==
  LET hash == calculateBlockHash(WithNonce(block, nonce))
  IN  IF StartsWith(hash, Repeat("0", difficulty))
      THEN WithHash(WithNonce(block, nonce), hash)
      ELSE MineFrom(block, difficulty, nonce + 1)

\* a mineBlock that takes the first nonce without looking at the hash
mineBlockFirstNonce(block, difficulty) ==
  WithHash(WithNonce(block, 1), calculateBlockHash(WithNonce(block, 1)))

mineBlock(block, difficulty) ==
  IF difficulty = 0
  THEN WithHash(WithNonce(block, 0), <<>>)
  ELSE MineFrom(block, difficulty, 1)

createGenesisBlock(t) ==
  LET block == [index |-> 0, timestamp |-> IsoString(t), dataHash |-> <<"Genesis Block">>,
                previousHash |-> <<"0">>, nonce |-> 0]
  IN  WithHash(block, calculateBlockHash(block))

\* ------------------------------------------------------------ the ledger
\* `let blockchain: Blockchain | null`
NullChain == [isNull |-> TRUE, chain |-> <<>>, difficulty |-> 0]
MkChain(blocks) == [isNull |-> FALSE, chain |-> blocks, difficulty |-> Difficulty]

\* a row of blockchain_data, or its absence
NoRow == [exists |-> FALSE, blocks |-> <<>>]
Row(blocks) == [exists |-> TRUE, blocks |-> blocks]

NoBlock ==
  [index |-> -1, timestamp |-> <<>>, dataHash |-> <<>>, previousHash |-> <<>>,
   nonce |-> 0, hash |-> <<>>]

\* blockchain.chain[blockchain.chain.length - 1]: throws on null, undefined on []
getLatestBlock(bc) ==
  IF bc.isNull \/ Len(bc.chain) = 0
  THEN [throws |-> bc.isNull, undefined |-> ~bc.isNull, block |-> NoBlock]
  ELSE [throws |-> FALSE, undefined |-> FALSE, block |-> bc.chain[Len(bc.chain)]]

\* an addBlock that numbers the new block like the one before it
addBlockSyncSameIndex(bc, dataHash, t) ==
  LET prev == getLatestBlock(bc)
      newBlock == mineBlock([index |-> prev.block.index, timestamp |-> IsoString(t),
                             dataHash |-> dataHash, previousHash |-> prev.block.hash],
                            bc.difficulty)
  IN  IF prev.throws \/ prev.undefined
      THEN [throws |-> TRUE, bc |-> bc, block |-> NoBlock]
      ELSE [throws |-> FALSE, bc |-> MkChain(Append(bc.chain, newBlock)), block |-> newBlock]

\* the synchronous part of addBlock: latest block, mine, push
addBlockSync(bc, dataHash, t) ==
  LET prev == getLatestBlock(bc)
      newBlock == mineBlock([index |-> prev.block.index + 1, timestamp |-> IsoString(t),
                             dataHash |-> dataHash, previousHash |-> prev.block.hash],
                            bc.difficulty)
  IN  IF prev.throws \/ prev.undefined   \* `previousBlock.index` of undefined throws
      THEN [throws |-> TRUE, bc |-> bc, block |-> NoBlock]
      ELSE [throws |-> FALSE, bc |-> MkChain(Append(bc.chain, newBlock)), block |-> newBlock]

BlockValid(bc, i) ==
  /\ bc.chain[i].hash = calculateBlockHash(bc.chain[i])
  /\ bc.chain[i].previousHash = bc.chain[i - 1].hash
  /\ StartsWith(bc.chain[i].hash, Repeat("0", bc.difficulty))

verifyBlockchain(bc) ==
  /\ ~bc.isNull
  /\ Len(bc.chain) # 0
  /\ bc.chain[1].previousHash = <<"0">>
  /\ \A i \in 2..Len(bc.chain) : BlockValid(bc, i)

\* Array.prototype.find: the first block with this dataHash, or null
findBlockByDataHash(bc, dataHash) ==
  LET hits == IF bc.isNull THEN {}
              ELSE {i \in 1..Len(bc.chain) : bc.chain[i].dataHash = dataHash}
  IN  IF hits = {}
      THEN [found |-> FALSE, block |-> NoBlock]
      ELSE [found |-> TRUE,
            block |-> bc.chain[CHOOSE i \in hits : \A j \in hits : i <= j]]

\* results of the exported functions
NoRet ==
  [has |-> FALSE, success |-> FALSE, verified |-> FALSE, chainValid |-> FALSE,
   hasBlock |-> FALSE, block |-> NoBlock, message |-> "", totalBlocks |-> 0,
   entries |-> <<>>, hasProof |-> FALSE, stored |-> FALSE, hasVerification |-> FALSE,
   hasEntry |-> FALSE, entry |-> <<>>, hasData |-> FALSE, data |-> <<>>, imported |-> 0]

StoreRet(success, hasBlock, block, message) ==
  [NoRet EXCEPT !.has = TRUE, !.success = success, !.hasBlock = hasBlock,
                !.block = block, !.message = message]

VerifyRet(verified, chainValid, hasBlock, block, message) ==
  [NoRet EXCEPT !.has = TRUE, !.verified = verified, !.chainValid = chainValid,
                !.hasBlock = hasBlock, !.block = block, !.message = message]

\* a verifyVaultProof that looks the data up whatever the chain validation says
verifyVaultProofAnyChain(bc, vaultData) ==
  LET found == findBlockByDataHash(bc, calculateHash(vaultData))
  IN  VerifyRet(found.found, verifyBlockchain(bc), found.found, found.block,
                IF found.found THEN "Proof verified" ELSE "No proof found in blockchain")

\* verifyVaultProof once the chain is initialized
verifyVaultProofSync(bc, vaultData) ==
  LET found == findBlockByDataHash(bc, calculateHash(vaultData))
  IN  IF ~verifyBlockchain(bc)
      THEN VerifyRet(FALSE, FALSE, FALSE, NoBlock, "Blockchain integrity compromised")
      ELSE IF ~found.found
      THEN VerifyRet(FALSE, TRUE, FALSE, NoBlock, "No proof found in blockchain")
      ELSE VerifyRet(TRUE, TRUE, TRUE, found.block, "Proof verified")

getBlockchainInfoSync(bc) ==
  LET latest == getLatestBlock(bc)
  IN  [NoRet EXCEPT !.has = TRUE, !.totalBlocks = Len(bc.chain),
                    !.hasBlock = ~latest.undefined, !.block = latest.block,
                    !.chainValid = verifyBlockchain(bc)]

\* ------------------------------------------------------------ the vault
\* the number of characters of a string
RECURSIVE StrLen(_)
StrLen(s) ==
  IF Len(s) = 0 THEN 0
  ELSE IF Len(s) = 1 THEN Len(s[1])
  ELSE LET h == Len(s) \div 2
       IN  StrLen(SubSeq(s, 1, h)) + StrLen(SubSeq(s, h + 1, Len(s)))

\* the tokens of a string run together into one token
RECURSIVE Join(_)
Join(s) ==
  IF Len(s) = 0 THEN ""
  ELSE IF Len(s) = 1 THEN s[1]
  ELSE LET h == Len(s) \div 2
       IN  Join(SubSeq(s, 1, h)) \o Join(SubSeq(s, h + 1, Len(s)))

\* String.prototype.slice(-n) and slice(0, -n), n counted in units of
\* 2 * AUTH_TAG_LENGTH hex characters: the auth tag is one such unit
TagUnits == 1
SliceLast(s, n) == IF Len(s) <= n THEN s ELSE SubSeq(s, Len(s) - n + 1, Len(s))
SliceButLast(s, n) == IF Len(s) <= n THEN <<>> ELSE SubSeq(s, 1, Len(s) - n)

\* crypto.pbkdf2Sync(masterPassword, salt, ...)
deriveKey(masterPassword, salt) == <<"K(">> \o masterPassword \o <<",">> \o salt \o <<")">>

\* AES-256-GCM: the ciphertext (hex) of a plaintext under a key and an iv, and
\* the auth tag (hex, one unit) of a ciphertext under that key and iv
CipherPrefix(key, iv) == <<"ct(">> \o key \o <<"|">> \o iv \o <<"|">>
cipherUpdateFinal(key, iv, data) == CipherPrefix(key, iv) \o data \o <<")">>
getAuthTag(key, iv, encrypted) == <<Join(<<"tag(">> \o key \o iv \o encrypted \o <<")">>)>>

\* decipher.update + final: throws unless the tag is the one of this ciphertext
\* under this key and iv
decipherUpdateFinal(key, iv, encryptedData, authTag) ==
  IF /\ authTag = getAuthTag(key, iv, encryptedData)
     /\ StartsWith(encryptedData, CipherPrefix(key, iv))
     /\ Len(encryptedData) > Len(CipherPrefix(key, iv))
  THEN [throws |-> FALSE,
        text |-> SubSeq(encryptedData, Len(CipherPrefix(key, iv)) + 1, Len(encryptedData) - 1)]
  ELSE [throws |-> TRUE, text |-> <<>>]

\* encryptData with the salt and the iv that crypto.randomBytes drew
encryptData(data, masterPassword, salt, iv) ==
  LET key == deriveKey(masterPassword, salt)
      encrypted == cipherUpdateFinal(key, iv, data)
  IN  [data |-> encrypted \o getAuthTag(key, iv, encrypted), iv |-> iv, salt |-> salt,
       version |-> 1]

decryptData(encrypted, masterPassword) ==
  LET key == deriveKey(masterPassword, encrypted.salt)
  IN  decipherUpdateFinal(key, encrypted.iv,
                          SliceButLast(encrypted.data, TagUnits),
                          SliceLast(encrypted.data, TagUnits))

\* JSON: a string value between quotes
JsonString(v) == <<"\"">> \o v \o <<"\"">>
JsonMember(name, v) == <<name, ":">> \o JsonString(v)

\* JSON.stringify(encrypted): data, iv, salt, version in the order they were set
StringifyEncrypted(e) ==
  <<"{">> \o JsonMember("data", e.data) \o <<",">> \o JsonMember("iv", e.iv) \o <<",">>
  \o JsonMember("salt", e.salt) \o <<",", "version", ":", ToString(e.version), "}">>

\* a VaultEntry; `notes` is optional
NoEntry ==
  [id |-> <<>>, site |-> <<>>, username |-> <<>>, password |-> <<>>, hasNotes |-> FALSE,
   notes |-> <<>>, createdAt |-> <<>>, updatedAt |-> <<>>]

\* a JSON.stringify that writes `notes` also when it is undefined
StringifyEntryWithNotes(e) ==
  <<"{">> \o JsonMember("id", e.id) \o <<",">> \o JsonMember("site", e.site) \o <<",">>
  \o JsonMember("username", e.username) \o <<",">> \o JsonMember("password", e.password)
  \o <<",">> \o JsonMember("notes", e.notes)
  \o <<",">> \o JsonMember("createdAt", e.createdAt)
  \o <<",">> \o JsonMember("updatedAt", e.updatedAt) \o <<"}">>

\* JSON.stringify of one entry: an undefined `notes` is left out
StringifyEntry(e) ==
  <<"{">> \o JsonMember("id", e.id) \o <<",">> \o JsonMember("site", e.site) \o <<",">>
  \o JsonMember("username", e.username) \o <<",">> \o JsonMember("password", e.password)
  \o (IF e.hasNotes THEN <<",">> \o JsonMember("notes", e.notes) ELSE <<>>)
  \o <<",">> \o JsonMember("createdAt", e.createdAt)
  \o <<",">> \o JsonMember("updatedAt", e.updatedAt) \o <<"}">>

RECURSIVE StringifyRest(_)
StringifyRest(entries) ==
  IF entries = <<>> THEN <<>>
  ELSE <<",">> \o StringifyEntry(Head(entries)) \o StringifyRest(Tail(entries))

\* JSON.stringify(entries)
StringifyEntries(entries) ==
  IF entries = <<>> THEN <<"[", "]">>
  ELSE <<"[">> \o StringifyEntry(Head(entries)) \o StringifyRest(Tail(entries)) \o <<"]">>

\* JSON.parse: the member `name` of the object under construction
WithMember(e, name, v) ==
  CASE name = "id"        -> [e EXCEPT !.id = v]
    [] name = "site"      -> [e EXCEPT !.site = v]
    [] name = "username"  -> [e EXCEPT !.username = v]
    [] name = "password"  -> [e EXCEPT !.password = v]
    [] name = "notes"     -> [e EXCEPT !.notes = v, !.hasNotes = TRUE]
    [] name = "createdAt" -> [e EXCEPT !.createdAt = v]
    [] name = "updatedAt" -> [e EXCEPT !.updatedAt = v]
    [] OTHER              -> e

\* the position of the quote that closes the string opened before position i
ClosingQuote(toks, i) ==
  CHOOSE j \in i..Len(toks) : toks[j] = "\"" /\ \A k \in i..(j - 1) : toks[k] # "\""

\* the members of an object from position i (a member name) to its closing brace
RECURSIVE ParseMembers(_, _, _)
ParseMembers(toks, i, e) ==
  LET close == ClosingQuote(toks, i + 3)
      e2 == WithMember(e, toks[i], SubSeq(toks, i + 3, close - 1))
  IN  IF toks[close + 1] = ","
      THEN ParseMembers(toks, close + 2, e2)
      ELSE [entry |-> e2, next |-> close + 2]

\* the objects of an array from position i to its closing bracket
RECURSIVE ParseObjects(_, _, _)
ParseObjects(toks, i, entries) ==
  IF toks[i] = "]" THEN entries
  ELSE LET m == ParseMembers(toks, i + 1, NoEntry)
       IN  ParseObjects(toks, IF toks[m.next] = "," THEN m.next + 1 ELSE m.next,
                        Append(entries, m.entry))

\* JSON.parse(decryptedData) as VaultEntry[]
ParseEntries(toks) == ParseObjects(toks, 2, <<>>)

\* JSON.parse(importData) followed by Array.isArray: JSON.parse throws unless
\* the text is a JSON value, and the value must be an array; a member that the
\* text leaves out is undefined, which is modelled like the empty string
ParseImport(toks) ==
  IF Len(toks) >= 2 /\ toks[1] = "[" /\ toks[Len(toks)] = "]"
  THEN [throws |-> FALSE, entries |-> ParseEntries(toks)]
  ELSE [throws |-> TRUE, entries |-> <<>>]

\* String.prototype.toLowerCase and includes
Lower(tok) == CASE tok = "X" -> "x" [] tok = "Y" -> "y" [] tok = "N" -> "n" [] OTHER -> tok
toLowerCase(s) == [i \in 1..Len(s) |-> Lower(s[i])]
includes(s, q) == \E i \in 0..(Len(s) - Len(q)) : SubSeq(s, i + 1, i + Len(q)) = q

\* the filter of searchVault
Matches(entry, query) ==
  LET lowerQuery == toLowerCase(query)
  IN  \/ includes(toLowerCase(entry.site), lowerQuery)
      \/ includes(toLowerCase(entry.username), lowerQuery)
      \/ entry.hasNotes /\ entry.notes # <<>>
           /\ includes(toLowerCase(entry.notes), lowerQuery)

\* ------------------------------------------------------------------ state
VARIABLES
  now,         \* the wall clock read by new Date()
  blockchain,  \* the module-level chain of blockchain.ts
  dbChain,     \* table blockchain_data: user_id -> row
  dbVault,     \* table vault_data: user_id -> row
  tasks,       \* the calls in flight: task 0 is the module-load initialization
  last,        \* the call that returned in the step just taken, with its result
  restarts,    \* process restarts so far
  faults,      \* storage requests that failed so far
  uuids        \* values that randomUUID() has returned so far

vars == <<now, blockchain, dbChain, dbVault, tasks, last, restarts, faults, uuids>>

\* the users who have an account: the tables are keyed by their ids
Accounts == DOMAIN dbChain

\* what a caller keeps of the call it made just before this one
NoFirst ==
  [has |-> FALSE, op |-> "none", data |-> <<>>, key |-> <<>>, entries |-> <<>>,
   ret |-> NoRet, n0 |-> 0, n1 |-> 0]

NoSel == [kind |-> "none", blocks |-> <<>>]

\* an EncryptedVault, a row of vault_data, and the answer to a select of it
NoEnc == [data |-> <<>>, iv |-> <<>>, salt |-> <<>>, version |-> 0]

NoVaultRow ==
  [exists |-> FALSE, encrypted_data |-> <<>>, iv |-> <<>>, auth_tag |-> <<>>,
   blockchain_hash |-> <<>>, updated_at |-> <<>>]

\* the `updates` of updateVaultEntry: the members that are set, and their values
NoUpdates ==
  [set |-> {}, site |-> <<>>, username |-> <<>>, password |-> <<>>, notes |-> <<>>]

\* what a call keeps of an addVaultEntry that returned while it was in flight
NoPeer == [has |-> FALSE, success |-> FALSE, entry |-> NoEntry, read |-> "none"]

IdleTask ==
  [op |-> "none", fn |-> "none", pc |-> "idle", data |-> <<>>, uid |-> NoUser,
   sel |-> NoSel, snap |-> <<>>, block |-> NoBlock, saveFailed |-> FALSE, n0 |-> 0,
   key |-> <<>>, entries |-> <<>>, enc |-> NoEnc, row |-> NoVaultRow, blob |-> "none",
   inner |-> NoRet, tampered |-> FALSE, first |-> NoFirst,
   entry |-> NoEntry, entryId |-> <<>>, updates |-> NoUpdates, newKey |-> <<>>,
   salt |-> <<>>, iv |-> <<>>, uuid |-> <<>>, load |-> NoRet, read |-> "none",
   save |-> NoRet, vault0 |-> <<>>, peer |-> NoPeer,
   importedEntries |-> <<>>, importCount |-> 0, query |-> <<>>]

ModuleLoadTask == [IdleTask EXCEPT !.op = "moduleInit", !.fn = "moduleInit", !.pc = "init_user"]

Active(tk) == tk.pc # "idle"

ChainLen(bc) == IF bc.isNull THEN -1 ELSE Len(bc.chain)

\* the hash that someone with access to the database writes over a block's
TamperedHash == <<"tampered">>

\* block 1 of some persisted chain has had its hash field rewritten
Tampered(chains) ==
  \E u \in Users :
    /\ chains[u].exists
    /\ Len(chains[u].blocks) >= 2
    /\ chains[u].blocks[2].hash = TamperedHash

\* the pairs of calls a caller makes back to back and compares the results of
Sequels ==
  {<<"store", "store">>, <<"store", "verify">>, <<"reset", "verify">>,
   <<"saveVault", "loadVault">>}

\* the caller's new call; `first` is the call it awaited just before, when this
\* one follows it at once as its sequel
NewCall(t, op, data) ==
  [IdleTask EXCEPT !.op = op, !.fn = op, !.data = data, !.n0 = ChainLen(blockchain),
                   !.tampered = Tampered(dbChain), !.vault0 = dbVault,
                   !.first = IF /\ last.has /\ last.t = t /\ <<last.op, op>> \in Sequels
                                /\ last.op \in {"store", "saveVault"} => last.ret.success
                             THEN [has |-> TRUE, op |-> last.op, data |-> last.data,
                                   key |-> last.key, entries |-> last.entries,
                                   ret |-> last.ret, n0 |-> last.n0, n1 |-> last.n1]
                             ELSE NoFirst]

\* a call returns `ret`: the slot is free again, the result is what the caller sees
Return(tk, ret) == [task |-> IdleTask, returned |-> TRUE, call |-> tk, ret |-> ret]
Goto(tk) == [task |-> tk, returned |-> FALSE, call |-> tk, ret |-> NoRet]

\* `!masterKey || masterKey.length < 8` and `!entry.site || !entry.username ||
\* !entry.password`
MinKeyLength == 8
ValidMasterKey(masterKey) == StrLen(masterKey) >= MinKeyLength
\* a validation that does not look at the password
ValidEntryButPassword(entry) == entry.site # <<>> /\ entry.username # <<>>
ValidEntry(entry) == entry.site # <<>> /\ entry.username # <<>> /\ entry.password # <<>>
\* a validation that looks at the first entry only
ValidEntriesFirst(entries) == entries = <<>> \/ ValidEntry(entries[1])
ValidEntries(entries) == \A i \in 1..Len(entries) : ValidEntry(entries[i])

\* saveVault after `await storeVaultProof(encryptedString)`
saveVaultDone(proofResult) ==
  [NoRet EXCEPT !.has = TRUE, !.success = TRUE, !.message = "Vault saved successfully",
                !.hasProof = TRUE, !.stored = proofResult.success,
                !.hasBlock = proofResult.hasBlock, !.block = proofResult.block]

\* the catch of saveVault and of loadVault
Failed(message) == [NoRet EXCEPT !.has = TRUE, !.message = message]

\* a loadVault that refuses a blob whose proof was not verified
loadVaultDoneStrict(tk, verification) ==
  LET decrypted == decryptData(tk.enc, tk.key)
      entries == ParseEntries(decrypted.text)
  IN  IF decrypted.throws
      THEN Failed("Invalid master password")
      ELSE IF ~verification.verified
      THEN Failed("Failed to load vault: proof not verified")
      ELSE [NoRet EXCEPT !.has = TRUE, !.success = TRUE, !.entries = entries,
                         !.message = "Vault loaded successfully ("
                                     \o ToString(Len(entries)) \o " entries)",
                         !.hasVerification = TRUE,
                         !.verified = verification.verified,
                         !.chainValid = verification.chainValid,
                         !.hasBlock = verification.hasBlock,
                         !.block = verification.block]

\* loadVault after `await verifyVaultProof(encryptedString)`: decrypt and parse
loadVaultDone(tk, verification) ==
  LET decrypted == decryptData(tk.enc, tk.key)
      entries == ParseEntries(decrypted.text)
  IN  IF decrypted.throws
      THEN Failed("Invalid master password")
      ELSE [NoRet EXCEPT !.has = TRUE, !.success = TRUE, !.entries = entries,
                         !.message = "Vault loaded successfully ("
                                     \o ToString(Len(entries)) \o " entries)",
                         !.hasVerification = TRUE,
                         !.verified = verification.verified,
                         !.chainValid = verification.chainValid,
                         !.hasBlock = verification.hasBlock,
                         !.block = verification.block]

\* what importVault pushes for an imported entry:
\* {...entry, id: randomUUID(), createdAt: entry.createdAt || now, updatedAt: now}
importedEntry(entry, uuid, t) ==
  [entry EXCEPT !.id = uuid,
                !.createdAt = IF @ = <<>> THEN IsoString(t) ELSE @,
                !.updatedAt = IsoString(t)]

\* importVault's loop: an imported entry is pushed unless an entry with its
\* site and username is in the merged list already; `ids` are the values
\* randomUUID() returns, in order
RECURSIVE mergeEntries(_, _, _, _)
mergeEntries(merged, importedEntries, ids, t) ==
  IF importedEntries = <<>> THEN merged
  ELSE LET entry == Head(importedEntries)
           exists == \E i \in 1..Len(merged) :
                       merged[i].site = entry.site /\ merged[i].username = entry.username
       IN  IF exists
           THEN mergeEntries(merged, Tail(importedEntries), ids, t)
           ELSE mergeEntries(Append(merged, importedEntry(entry, <<Head(ids)>>, t)),
                             Tail(importedEntries), Tail(ids), t)

\* what importVault, exportVault and searchVault return
ImportDone(importCount) ==
  [NoRet EXCEPT !.has = TRUE, !.success = TRUE, !.imported = importCount,
                !.message = "Imported " \o ToString(importCount) \o " new entries"]
ExportDone(entries) ==
  [NoRet EXCEPT !.has = TRUE, !.success = TRUE, !.hasData = TRUE,
                !.data = StringifyEntries(entries),
                !.message = "Vault exported successfully"]
SearchDone(matchedEntries) ==
  [NoRet EXCEPT !.has = TRUE, !.success = TRUE, !.entries = matchedEntries,
                !.message = "Found " \o ToString(Len(matchedEntries)) \o " matching entries"]

\* what the functions that change one entry return
EntryFailed(message) == [NoRet EXCEPT !.has = TRUE, !.message = message]
EntryDone(message) == [NoRet EXCEPT !.has = TRUE, !.success = TRUE, !.message = message]
EntryDoneWith(entry, message) ==
  [NoRet EXCEPT !.has = TRUE, !.success = TRUE, !.hasEntry = TRUE, !.entry = <<entry>>,
                !.message = message]

\* saveVault returns `sr` to the function that awaited it
saveVaultReturn(tk0, sr) ==
  LET tk == [tk0 EXCEPT !.save = sr]
  IN  CASE tk.op = "addEntry" ->
             Return(tk, IF ~sr.success THEN EntryFailed(sr.message)
                        ELSE EntryDoneWith(tk.entry, "Entry added successfully"))
        [] tk.op = "updateEntry" ->
             Return(tk, IF ~sr.success THEN EntryFailed(sr.message)
                        ELSE EntryDoneWith(tk.entry, "Entry updated successfully"))
        [] tk.op = "deleteEntry" ->
             Return(tk, IF ~sr.success THEN EntryFailed(sr.message)
                        ELSE EntryDone("Entry deleted successfully"))
        [] tk.op = "import" ->
             Return(tk, IF ~sr.success THEN EntryFailed(sr.message)
                        ELSE ImportDone(tk.importCount))
        [] OTHER -> Return(tk0, sr)

\* saveVault(masterKey, entries) called by another function of vault.ts, up to
\* `await getUserId()` of saveVaultToSupabase; the salt and the iv are the ones
\* crypto.randomBytes will draw for this call
saveVaultStart(tk0, masterKey, entries) ==
  LET tk == [tk0 EXCEPT !.entries = entries, !.fn = "save", !.enc = NoEnc, !.blob = "none",
                        !.inner = NoRet]
  IN  IF ~ValidMasterKey(masterKey)
      THEN saveVaultReturn(tk, Failed("Failed to save vault: Master password must be at least 8 characters"))
      ELSE IF ~ValidEntries(entries)
      THEN saveVaultReturn(tk, Failed("Failed to save vault: Each entry must have site, username, and password"))
      ELSE Goto([tk EXCEPT !.enc = encryptData(StringifyEntries(entries), masterKey,
                                               tk.salt, tk.iv),
                           !.pc = "vsave_user"])

\* {...entry, id: randomUUID(), createdAt, updatedAt}
newEntry(entry, uuid, t) ==
  [entry EXCEPT !.id = uuid, !.createdAt = IsoString(t), !.updatedAt = IsoString(t)]

\* entries.findIndex((e) => e.id === entryId), counted from 1; 0 when there is none
findIndex(entries, entryId) ==
  LET hits == {i \in 1..Len(entries) : entries[i].id = entryId}
  IN  IF hits = {} THEN 0 ELSE CHOOSE i \in hits : \A j \in hits : i <= j

\* an update that leaves the password as it was
updatedEntryOldPassword(e, updates, t) ==
  [e EXCEPT !.site = IF "site" \in updates.set THEN updates.site ELSE @,
            !.username = IF "username" \in updates.set THEN updates.username ELSE @,
            !.hasNotes = @ \/ "notes" \in updates.set,
            !.notes = IF "notes" \in updates.set THEN updates.notes ELSE @,
            !.updatedAt = IsoString(t)]

\* {...entries[entryIndex], ...updates, updatedAt: new Date().toISOString()}
updatedEntry(e, updates, t) ==
  [e EXCEPT !.site = IF "site" \in updates.set THEN updates.site ELSE @,
            !.username = IF "username" \in updates.set THEN updates.username ELSE @,
            !.password = IF "password" \in updates.set THEN updates.password ELSE @,
            !.hasNotes = @ \/ "notes" \in updates.set,
            !.notes = IF "notes" \in updates.set THEN updates.notes ELSE @,
            !.updatedAt = IsoString(t)]

\* entries.splice(entryIndex, 1)
splice(entries, i) == SubSeq(entries, 1, i - 1) \o SubSeq(entries, i + 1, Len(entries))

\* loadVault returns `lr` to the function that awaited it
loadVaultReturn(tk0, lr) ==
  LET tk == [tk0 EXCEPT !.load = lr, !.read = tk0.blob]
      entryIndex == findIndex(lr.entries, tk.entryId)
  IN  CASE tk.op = "addEntry" ->
             IF /\ ~lr.success /\ Len(lr.entries) = 0
                /\ lr.message # "No vault found, starting with empty vault"
             THEN Return(tk, EntryFailed(lr.message))
             ELSE LET e == newEntry(tk.entry, tk.uuid, now)
                  IN  saveVaultStart([tk EXCEPT !.entry = e], tk.key, Append(lr.entries, e))
        [] tk.op = "updateEntry" ->
             IF ~lr.success THEN Return(tk, EntryFailed(lr.message))
             ELSE IF entryIndex = 0 THEN Return(tk, EntryFailed("Entry not found"))
             ELSE LET e == updatedEntry(lr.entries[entryIndex], tk.updates, now)
                  IN  saveVaultStart([tk EXCEPT !.entry = e], tk.key,
                                     [lr.entries EXCEPT ![entryIndex] = e])
        [] tk.op = "deleteEntry" ->
             IF ~lr.success THEN Return(tk, EntryFailed(lr.message))
             ELSE IF entryIndex = 0 THEN Return(tk, EntryFailed("Entry not found"))
             ELSE saveVaultStart(tk, tk.key, splice(lr.entries, entryIndex))
        [] tk.op = "changePassword" ->
             IF ~lr.success THEN Return(tk, EntryFailed("Invalid old master password"))
             ELSE saveVaultStart(tk, tk.newKey, lr.entries)
        [] tk.op = "import" ->
             LET existingEntries == IF lr.success THEN lr.entries ELSE <<>>
                 merged == mergeEntries(existingEntries, tk.importedEntries, tk.uuid, now)
             IN  saveVaultStart([tk EXCEPT !.importCount = Len(merged) - Len(existingEntries)],
                                tk.key, merged)
        [] tk.op = "export" ->
             Return(tk, IF ~lr.success THEN EntryFailed(lr.message)
                        ELSE ExportDone(lr.entries))
        [] tk.op = "search" ->
             Return(tk, IF ~lr.success THEN EntryFailed(lr.message)
                        ELSE SearchDone(SelectSeq(lr.entries,
                                                  LAMBDA e : Matches(e, tk.query))))
        [] OTHER -> Return(tk0, lr)

\* storeVaultProof or verifyVaultProof returns `ret` to the function that awaited it
Resume(tk, ret) ==
  CASE tk.fn = "store" /\ tk.op \notin {"store", "verify"} ->
         saveVaultReturn([tk EXCEPT !.inner = ret], saveVaultDone(ret))
    [] tk.fn = "verify" /\ tk.op \notin {"store", "verify"} ->
         loadVaultReturn([tk EXCEPT !.inner = ret], loadVaultDone(tk, ret))
    [] OTHER -> Return(tk, ret)

\* ---------------------------------------------- continuations (synchronous)
\* addBlock after its `if (!blockchain) await initializeBlockchain()`, up to the
\* request of saveBlockchain; storeVaultProof's catch turns a throw into a result
addBlockCont(tk, bc) ==
  LET r == addBlockSync(bc, calculateHash(tk.data), now)
  IN  IF r.throws
      THEN [bc |-> bc, go |-> Resume(tk, StoreRet(FALSE, FALSE, NoBlock, "Failed to store proof"))]
      ELSE [bc |-> r.bc, go |-> Goto([tk EXCEPT !.pc = "save_user", !.block = r.block])]

\* what the caller of initializeBlockchain does when it returns
afterInit(tk, bc) ==
  CASE tk.fn = "store"  -> addBlockCont(tk, bc)
    [] tk.fn = "verify" -> [bc |-> bc, go |-> Resume(tk, verifyVaultProofSync(bc, tk.data))]
    [] tk.fn = "info"   -> [bc |-> bc, go |-> Return(tk, getBlockchainInfoSync(bc))]
    [] OTHER            -> [bc |-> bc, go |-> Return(tk, NoRet)]

\* what the caller of saveBlockchain does when it returns
afterSave(tk) ==
  CASE tk.fn = "store" -> Resume(tk, StoreRet(TRUE, TRUE, tk.block, "Proof stored successfully"))
    [] OTHER           -> Return(tk, NoRet)

\* ------------------------------------------------------------- bookkeeping
NoCall ==
  [has |-> FALSE, t |-> 0, op |-> "none", data |-> <<>>, key |-> <<>>, entries |-> <<>>,
   blob |-> "none", enc |-> NoEnc, inner |-> NoRet, ret |-> NoRet, n0 |-> 0, n1 |-> 0,
   saveFailed |-> FALSE, tampered |-> FALSE, first |-> NoFirst,
   entry |-> NoEntry, entryId |-> <<>>, updates |-> NoUpdates, newKey |-> <<>>,
   uuid |-> <<>>, load |-> NoRet, read |-> "none", save |-> NoRet, vault0 |-> <<>>,
   peer |-> NoPeer]

CallRecord(t, go, bc) ==
  [has |-> TRUE, t |-> t, op |-> go.call.op, data |-> go.call.data,
   key |-> go.call.key, entries |-> go.call.entries, blob |-> go.call.blob,
   enc |-> go.call.enc, inner |-> go.call.inner,
   ret |-> go.ret, n0 |-> go.call.n0, n1 |-> ChainLen(bc),
   saveFailed |-> go.call.saveFailed, tampered |-> go.call.tampered,
   first |-> go.call.first,
   entry |-> go.call.entry, entryId |-> go.call.entryId, updates |-> go.call.updates,
   newKey |-> go.call.newKey, uuid |-> go.call.uuid, load |-> go.call.load,
   read |-> go.call.read, save |-> go.call.save, vault0 |-> go.call.vault0,
   peer |-> go.call.peer]

\* a step of task t: where it goes, and what it did to the chain and the tables
Overlapped(tk, go) ==
  IF go.returned /\ go.call.op = "addEntry" /\ tk.op = "addEntry" /\ Active(tk)
  THEN [tk EXCEPT !.peer = [has |-> TRUE, success |-> go.ret.success,
                            entry |-> go.call.entry, read |-> go.call.read]]
  ELSE tk

Commit(t, go, bc, chains, vaults) ==
  /\ tasks' = [u \in TaskIds |-> IF u = t THEN go.task ELSE Overlapped(tasks[u], go)]
  /\ blockchain' = bc
  /\ dbChain' = chains
  /\ dbVault' = vaults
  /\ last' = IF go.returned /\ t # 0 THEN CallRecord(t, go, bc) ELSE NoCall

\* a call enters through a free slot
Enter(t) ==
  /\ t \in UserTasks
  /\ ~Active(tasks[t])

\* what another instance of the program stores a proof of
ForeignData == <<"foreign">>

\* the blocks of a persisted chain that were not appended by another instance
OwnBlocks(blocks) == SelectSeq(blocks, LAMBDA b : b.dataHash # calculateHash(ForeignData))

\* the chains are kept within MaxBlocks blocks: no call that appends is made
\* once a chain is that long, the blocks of another instance not counted
RoomToAppend ==
  /\ blockchain.isNull \/ Len(blockchain.chain) < MaxBlocks
  /\ \A u \in Accounts : Len(OwnBlocks(dbChain[u].blocks)) < MaxBlocks

\* a storage request answers, or fails (a network or database error)
Answer(ok) ==
  /\ ok \in BOOLEAN
  /\ ~ok => faults < MaxFaults
  /\ faults' = IF ok THEN faults ELSE faults + 1

\* ------------------------------------------------------------ environment
Tick ==
  /\ now < MaxTime
  /\ now' = now + 1
  /\ last' = NoCall
  /\ UNCHANGED <<blockchain, dbChain, dbVault, tasks, restarts, faults, uuids>>

\* the process ends and starts again: the module is loaded anew
Restart ==
  /\ restarts < MaxRestarts
  /\ restarts' = restarts + 1
  /\ blockchain' = NullChain
  /\ tasks' = [t \in TaskIds |-> IF t = 0 THEN ModuleLoadTask ELSE IdleTask]
  /\ last' = NoCall
  /\ UNCHANGED <<now, dbChain, dbVault, faults, uuids>>

\* ------------------------------------------------- initializeBlockchain
\* getUserId() answers with the user who is signed in at that moment, or throws
\* when nobody is (users sign in and out at any time)
GetUserId(who) == who \in Accounts \cup {NoUser}

\* `const userId = userIdParam || (await getUserId())`: every caller passes no
\* userIdParam; when getUserId throws, the catch falls back to an unpersisted
\* genesis block
InitUser(t) ==
  /\ tasks[t].pc = "init_user"
  /\ \E who \in Accounts \cup {NoUser} :
       /\ GetUserId(who)
       /\ IF who = NoUser
          THEN LET r == afterInit(tasks[t], MkChain(<<createGenesisBlock(now)>>))
               IN  Commit(t, r.go, r.bc, dbChain, dbVault)
          ELSE Commit(t, Goto([tasks[t] EXCEPT !.uid = who, !.pc = "init_select"]),
                      blockchain, dbChain, dbVault)
  /\ UNCHANGED <<now, restarts, faults, uuids>>

\* the database runs `select blocks ... eq(user_id).single()`
InitSelect(t) ==
  /\ tasks[t].pc = "init_select"
  /\ \E ok \in BOOLEAN :
       /\ Answer(ok)
       /\ LET row == dbChain[tasks[t].uid]
              sel == IF ~ok THEN [kind |-> "error", blocks |-> <<>>]
                     ELSE IF row.exists THEN [kind |-> "data", blocks |-> row.blocks]
                     ELSE [kind |-> "norow", blocks |-> <<>>]
          IN  Commit(t, Goto([tasks[t] EXCEPT !.sel = sel, !.pc = "init_got"]),
                     blockchain, dbChain, dbVault)
  /\ UNCHANGED <<now, restarts, uuids>>

\* the answer arrives: `if (data && !error)` takes the stored chain, anything
\* else creates a genesis block and requests its save
InitGot(t) ==
  /\ tasks[t].pc = "init_got"
  /\ IF tasks[t].sel.kind = "data"
     THEN LET r == afterInit([tasks[t] EXCEPT !.sel = NoSel], MkChain(tasks[t].sel.blocks))
          IN  Commit(t, r.go, r.bc, dbChain, dbVault)
     ELSE LET bc == MkChain(<<createGenesisBlock(now)>>)
          IN  Commit(t, Goto([tasks[t] EXCEPT !.sel = NoSel, !.snap = bc.chain,
                                              !.pc = "init_save"]),
                     bc, dbChain, dbVault)
  /\ UNCHANGED <<now, restarts, faults, uuids>>

\* saveBlockchain(userId) of initializeBlockchain answers; an error is only logged
InitSave(t) ==
  /\ tasks[t].pc = "init_save"
  /\ \E ok \in BOOLEAN :
       /\ Answer(ok)
       /\ LET r == afterInit([tasks[t] EXCEPT !.snap = <<>>], blockchain)
          IN  Commit(t, r.go, r.bc,
                     IF ok THEN [dbChain EXCEPT ![tasks[t].uid] = Row(tasks[t].snap)]
                     ELSE dbChain,
                     dbVault)
  /\ UNCHANGED <<now, restarts, uuids>>

\* ------------------------------------------------------- saveBlockchain()
\* `await getUserId()` of a save without userIdParam: a throw is caught and
\* logged inside saveBlockchain; otherwise the upsert is sent with a copy of the
\* chain as it is now
SaveUser(t) ==
  /\ tasks[t].pc = "save_user"
  /\ \E who \in Accounts \cup {NoUser} :
       /\ GetUserId(who)
       /\ IF who = NoUser
          THEN Commit(t, afterSave([tasks[t] EXCEPT !.saveFailed = TRUE]),
                      blockchain, dbChain, dbVault)
          ELSE Commit(t, Goto([tasks[t] EXCEPT !.uid = who, !.snap = blockchain.chain,
                                               !.pc = "save_write"]),
                      blockchain, dbChain, dbVault)
  /\ UNCHANGED <<now, restarts, faults, uuids>>

SaveWrite(t) ==
  /\ tasks[t].pc = "save_write"
  /\ \E ok \in BOOLEAN :
       /\ Answer(ok)
       /\ Commit(t, afterSave([tasks[t] EXCEPT !.saveFailed = ~ok]), blockchain,
                 IF ok THEN [dbChain EXCEPT ![tasks[t].uid] = Row(tasks[t].snap)]
                 ELSE dbChain,
                 dbVault)
  /\ UNCHANGED <<now, restarts, uuids>>

\* ------------------------------------------------------ exported functions
storeVaultProofStart(tk, bc) ==
  LET existing == findBlockByDataHash(bc, calculateHash(tk.data))
  IN  IF existing.found
      THEN [bc |-> bc, go |-> Resume(tk, StoreRet(TRUE, TRUE, existing.block, "Proof already exists"))]
      ELSE IF bc.isNull
      THEN [bc |-> bc, go |-> Goto([tk EXCEPT !.pc = "init_user"])]
      ELSE addBlockCont(tk, bc)

StoreVaultProof(t, d) ==
  /\ Enter(t)
  /\ RoomToAppend \/ findBlockByDataHash(blockchain, calculateHash(d)).found
  /\ LET r == storeVaultProofStart(NewCall(t, "store", d), blockchain)
     IN  Commit(t, r.go, r.bc, dbChain, dbVault)
  /\ UNCHANGED <<now, restarts, faults, uuids>>

\* a verifyVaultProof that initializes the ledger at every call
verifyVaultProofStartReload(tk, bc) == Goto([tk EXCEPT !.pc = "init_user"])

verifyVaultProofStart(tk, bc) ==
  IF bc.isNull
  THEN Goto([tk EXCEPT !.pc = "init_user"])
  ELSE Resume(tk, verifyVaultProofSync(bc, tk.data))

VerifyVaultProof(t, d) ==
  /\ Enter(t)
  /\ Commit(t, verifyVaultProofStart(NewCall(t, "verify", d), blockchain),
            blockchain, dbChain, dbVault)
  /\ UNCHANGED <<now, restarts, faults, uuids>>

GetBlockchainInfo(t) ==
  /\ Enter(t)
  /\ Commit(t, IF blockchain.isNull
               THEN Goto([NewCall(t, "info", <<>>) EXCEPT !.pc = "init_user"])
               ELSE Return(NewCall(t, "info", <<>>), getBlockchainInfoSync(blockchain)),
            blockchain, dbChain, dbVault)
  /\ UNCHANGED <<now, restarts, faults, uuids>>

ResetBlockchain(t) ==
  /\ Enter(t)
  /\ Commit(t, Goto([NewCall(t, "reset", <<>>) EXCEPT !.pc = "save_user"]),
            MkChain(<<createGenesisBlock(now)>>), dbChain, dbVault)
  /\ UNCHANGED <<now, restarts, faults, uuids>>

\* ------------------------------------------------------------ vault.ts

\* the row saveVaultToSupabase upserts, and the EncryptedVault that
\* loadVaultFromSupabase makes of a row
VaultRow(encrypted, t) ==
  [exists |-> TRUE,
   encrypted_data |-> SliceButLast(encrypted.data, TagUnits),
   iv |-> encrypted.iv,
   auth_tag |-> SliceLast(encrypted.data, TagUnits),
   blockchain_hash |-> encrypted.salt,
   updated_at |-> IsoString(t)]

FromRow(row) ==
  [data |-> row.encrypted_data \o row.auth_tag, iv |-> row.iv,
   salt |-> row.blockchain_hash, version |-> 1]

\* saveVault up to `await getUserId()` of saveVaultToSupabase: validation, then
\* encryption with a fresh salt and iv
SaveVault(t, masterKey, entries) ==
  /\ Enter(t)
  /\ RoomToAppend
  /\ LET tk == [NewCall(t, "saveVault", <<>>) EXCEPT !.key = masterKey, !.entries = entries]
     IN  IF ~ValidMasterKey(masterKey)
         THEN Commit(t, Return(tk, Failed("Failed to save vault: Master password must be at least 8 characters")),
                     blockchain, dbChain, dbVault)
         ELSE IF ~ValidEntries(entries)
         THEN Commit(t, Return(tk, Failed("Failed to save vault: Each entry must have site, username, and password")),
                     blockchain, dbChain, dbVault)
         ELSE \E salt \in Salts, iv \in Ivs :
                Commit(t, Goto([tk EXCEPT !.enc = encryptData(StringifyEntries(entries),
                                                             masterKey, salt, iv),
                                          !.pc = "vsave_user"]),
                       blockchain, dbChain, dbVault)
  /\ UNCHANGED <<now, restarts, faults, uuids>>

\* saveVaultToSupabase: getUserId answers, the upsert is sent
VaultSaveUser(t) ==
  /\ tasks[t].pc = "vsave_user"
  /\ \E who \in Accounts \cup {NoUser} :
       /\ GetUserId(who)
       /\ IF who = NoUser
          THEN Commit(t, saveVaultReturn(tasks[t], Failed("Failed to save vault: Failed to save vault: User not authenticated, supabase, supabase.ts,")),
                      blockchain, dbChain, dbVault)
          ELSE Commit(t, Goto([tasks[t] EXCEPT !.uid = who, !.row = VaultRow(tasks[t].enc, now),
                                               !.pc = "vsave_write"]),
                      blockchain, dbChain, dbVault)
  /\ UNCHANGED <<now, restarts, faults, uuids>>

\* the upsert answers: an error makes saveVault fail; otherwise saveVault goes
\* on to storeVaultProof(JSON.stringify(encrypted))
VaultSaveWrite(t) ==
  /\ tasks[t].pc = "vsave_write"
  /\ \E ok \in BOOLEAN :
       /\ Answer(ok)
       /\ IF ~ok
          THEN Commit(t, saveVaultReturn(tasks[t], Failed("Failed to save vault: Failed to save vault: Supabase error")),
                      blockchain, dbChain, dbVault)
          ELSE LET tk == [tasks[t] EXCEPT !.fn = "store", !.blob = "written",
                                          !.data = StringifyEncrypted(tasks[t].enc)]
                   r == storeVaultProofStart(tk, blockchain)
               IN  Commit(t, r.go, r.bc, dbChain,
                          [dbVault EXCEPT ![tasks[t].uid] = tasks[t].row])
  /\ UNCHANGED <<now, restarts, uuids>>

\* loadVault up to `await getUserId()` of loadVaultFromSupabase
LoadVault(t, masterKey) ==
  /\ Enter(t)
  /\ Commit(t, Goto([NewCall(t, "loadVault", <<>>) EXCEPT !.key = masterKey,
                                                          !.pc = "vload_user"]),
            blockchain, dbChain, dbVault)
  /\ UNCHANGED <<now, restarts, faults, uuids>>

\* what loadVault returns when loadVaultFromSupabase returned null
NoVaultFound ==
  [NoRet EXCEPT !.has = TRUE, !.success = TRUE,
                !.message = "No vault found, starting with empty vault"]

\* loadVaultFromSupabase: getUserId answers; a throw is caught and null returned
VaultLoadUser(t) ==
  /\ tasks[t].pc = "vload_user"
  /\ \E who \in Accounts \cup {NoUser} :
       /\ GetUserId(who)
       /\ IF who = NoUser
          THEN Commit(t, loadVaultReturn([tasks[t] EXCEPT !.blob = "nouser"], NoVaultFound),
                      blockchain, dbChain, dbVault)
          ELSE Commit(t, Goto([tasks[t] EXCEPT !.uid = who, !.pc = "vload_select"]),
                      blockchain, dbChain, dbVault)
  /\ UNCHANGED <<now, restarts, faults, uuids>>

\* the database runs `select * ... eq(user_id).single()` on vault_data
VaultLoadSelect(t) ==
  /\ tasks[t].pc = "vload_select"
  /\ \E ok \in BOOLEAN :
       /\ Answer(ok)
       /\ LET row == dbVault[tasks[t].uid]
          IN  Commit(t, Goto([tasks[t] EXCEPT
                                !.row = IF ok THEN row ELSE NoVaultRow,
                                !.blob = IF ~ok THEN "error"
                                         ELSE IF row.exists THEN "row" ELSE "norow",
                                !.pc = "vload_got"]),
                     blockchain, dbChain, dbVault)
  /\ UNCHANGED <<now, restarts, uuids>>

\* the answer arrives: `if (error || !data) return null`; otherwise loadVault
\* goes on to verifyVaultProof(JSON.stringify(encrypted))
VaultLoadGot(t) ==
  /\ tasks[t].pc = "vload_got"
  /\ IF tasks[t].blob # "row"
     THEN Commit(t, loadVaultReturn(tasks[t], NoVaultFound), blockchain, dbChain, dbVault)
     ELSE LET encrypted == FromRow(tasks[t].row)
              tk == [tasks[t] EXCEPT !.fn = "verify", !.enc = encrypted, !.row = NoVaultRow,
                                     !.data = StringifyEncrypted(encrypted)]
          IN  Commit(t, verifyVaultProofStart(tk, blockchain), blockchain, dbChain, dbVault)
  /\ UNCHANGED <<now, restarts, faults, uuids>>

\* -------------------------------------- the functions that change one entry
MaxEntryBlocks == 3
MaxUuids == 2

\* the chains are kept within MaxEntryBlocks blocks
RoomForEntry ==
  /\ blockchain.isNull \/ Len(blockchain.chain) < MaxEntryBlocks
  /\ \A u \in Accounts : Len(dbChain[u].blocks) < MaxEntryBlocks

\* the n-th value that randomUUID() returns: no two are equal
Uuid(n) == <<"uuid-" \o ToString(n)>>

\* a function of vault.ts that starts with `await loadVault(masterKey)`: up to
\* `await getUserId()` of loadVaultFromSupabase
EntryCall(t, op, masterKey) ==
  [NewCall(t, op, <<>>) EXCEPT !.key = masterKey, !.pc = "vload_user"]

AddVaultEntry(t, masterKey, entry) ==
  /\ Enter(t)
  /\ RoomForEntry
  /\ uuids < MaxUuids
  /\ \E salt \in Salts, iv \in Ivs :
       Commit(t, Goto([EntryCall(t, "addEntry", masterKey) EXCEPT
                         !.entry = entry, !.salt = salt, !.iv = iv,
                         !.uuid = Uuid(uuids + 1)]),
              blockchain, dbChain, dbVault)
  /\ uuids' = uuids + 1
  /\ UNCHANGED <<now, restarts, faults>>

UpdateVaultEntry(t, masterKey, entryId, updates) ==
  /\ Enter(t)
  /\ RoomForEntry
  /\ \E salt \in Salts, iv \in Ivs :
       Commit(t, Goto([EntryCall(t, "updateEntry", masterKey) EXCEPT
                         !.entryId = entryId, !.updates = updates,
                         !.salt = salt, !.iv = iv]),
              blockchain, dbChain, dbVault)
  /\ UNCHANGED <<now, restarts, faults, uuids>>

DeleteVaultEntry(t, masterKey, entryId) ==
  /\ Enter(t)
  /\ RoomForEntry
  /\ \E salt \in Salts, iv \in Ivs :
       Commit(t, Goto([EntryCall(t, "deleteEntry", masterKey) EXCEPT
                         !.entryId = entryId, !.salt = salt, !.iv = iv]),
              blockchain, dbChain, dbVault)
  /\ UNCHANGED <<now, restarts, faults, uuids>>

\* changeMasterPassword: the new passphrase is validated before the load
ChangeMasterPassword(t, oldMasterKey, newMasterKey) ==
  /\ Enter(t)
  /\ RoomForEntry
  /\ \E salt \in Salts, iv \in Ivs :
       LET tk == [EntryCall(t, "changePassword", oldMasterKey) EXCEPT
                    !.newKey = newMasterKey, !.salt = salt, !.iv = iv]
       IN  IF ~ValidMasterKey(newMasterKey)
           THEN Commit(t, Return(tk, EntryFailed("Failed to change password: New master password must be at least 8 characters")),
                       blockchain, dbChain, dbVault)
           ELSE Commit(t, Goto(tk), blockchain, dbChain, dbVault)
  /\ UNCHANGED <<now, restarts, faults, uuids>>

\* importVault: the data is parsed and checked before the load; the values
\* randomUUID() will return to this call are drawn here, one for each entry
ImportVault(t, masterKey, importData) ==
  /\ Enter(t)
  /\ RoomForEntry
  /\ LET parsed == ParseImport(importData)
         n == Len(parsed.entries)
     IN  /\ uuids + n <= MaxUuids
         /\ uuids' = uuids + n
         /\ \E salt \in Salts, iv \in Ivs :
              LET tk == [EntryCall(t, "import", masterKey) EXCEPT
                           !.data = importData, !.importedEntries = parsed.entries,
                           !.salt = salt, !.iv = iv,
                           !.uuid = [i \in 1..n |-> Uuid(uuids + i)[1]]]
              IN  IF parsed.throws
                  THEN Commit(t, Return(tk, EntryFailed("Import failed: Invalid import data format")),
                              blockchain, dbChain, dbVault)
                  ELSE Commit(t, Goto(tk), blockchain, dbChain, dbVault)
  /\ UNCHANGED <<now, restarts, faults>>

ExportVault(t, masterKey) ==
  /\ Enter(t)
  /\ Commit(t, Goto(EntryCall(t, "export", masterKey)), blockchain, dbChain, dbVault)
  /\ UNCHANGED <<now, restarts, faults, uuids>>

SearchVault(t, masterKey, query) ==
  /\ Enter(t)
  /\ Commit(t, Goto([EntryCall(t, "search", masterKey) EXCEPT !.query = query]),
            blockchain, dbChain, dbVault)
  /\ UNCHANGED <<now, restarts, faults, uuids>>

\* ---------------------------------------------------------- specification
Init ==
  /\ now = 0
  /\ blockchain = NullChain
  /\ dbChain = [u \in Users |-> NoRow]
  /\ dbVault = [u \in Users |-> NoVaultRow]
  /\ tasks = [t \in TaskIds |-> IF t = 0 THEN ModuleLoadTask ELSE IdleTask]
  /\ last = NoCall
  /\ restarts = 0
  /\ faults = 0
  /\ uuids = 0

LedgerStep(t) ==
  \/ InitUser(t)
  \/ InitSelect(t)
  \/ InitGot(t)
  \/ InitSave(t)
  \/ SaveUser(t)
  \/ SaveWrite(t)

Environment ==
  \/ Tick
  \/ Restart

LedgerCall(t) ==
  \/ \E d \in DataPool : StoreVaultProof(t, d)
  \/ \E d \in DataPool : VerifyVaultProof(t, d)
  \/ GetBlockchainInfo(t)
  \/ ResetBlockchain(t)

\* one caller: a call is made when the one before it has returned, while the
\* module-load initialization may still be in flight
Next ==
  \/ Environment
  \/ \E t \in TaskIds : LedgerStep(t)
  \/ LedgerCall(1)

Spec == Init /\ [][Next]_vars

\* what the callers of the vault pass
MasterKeys == {<<"longenough1">>, <<"otherpass22">>, <<"short">>, <<>>}

EntryA ==
  [NoEntry EXCEPT !.id = <<"a">>, !.site = <<"x">>, !.username = <<"y">>,
                  !.password = <<"z">>, !.createdAt = <<"0">>, !.updatedAt = <<"0">>]
EntryB == [EntryA EXCEPT !.id = <<"b">>, !.hasNotes = TRUE, !.notes = <<"n">>]

ListBA == <<EntryB, EntryA>>

\* the arguments of the saveVault calls: passphrases that are fine, too short
\* or missing, lists that are fine or hold an entry with an empty field
SaveInputs ==
  {<<k, l>> : k \in {<<"longenough1">>, <<"otherpass22">>}, l \in {<<>>, ListBA}}
  \cup {<<k, ListBA>> : k \in {<<"short">>, <<>>}}
  \cup {<<(<<"longenough1">>), l>> :
          l \in {<<[EntryA EXCEPT !.site = <<>>]>>,
                 <<EntryA, [EntryB EXCEPT !.username = <<>>]>>,
                 <<[EntryA EXCEPT !.password = <<>>]>>}}

VaultStep(t) ==
  \/ VaultSaveUser(t)
  \/ VaultSaveWrite(t)
  \/ VaultLoadUser(t)
  \/ VaultLoadSelect(t)
  \/ VaultLoadGot(t)

VaultCall(t) ==
  \/ \E in \in SaveInputs : SaveVault(t, in[1], in[2])
  \/ \E k \in MasterKeys : LoadVault(t, k)

\* a row of blockchain_data either is absent or holds the column default '[]'
\* until the program writes it
VaultInit ==
  /\ now = 0
  /\ blockchain = NullChain
  /\ dbChain \in [Users -> {NoRow, Row(<<>>)}]
  /\ dbVault = [u \in Users |-> NoVaultRow]
  /\ tasks = [t \in TaskIds |-> IF t = 0 THEN ModuleLoadTask ELSE IdleTask]
  /\ last = NoCall
  /\ restarts = 0
  /\ faults = 0
  /\ uuids = 0

\* one caller of the vault
VaultNext ==
  \/ Restart
  \/ \E t \in TaskIds : LedgerStep(t)
  \/ \E t \in UserTasks : VaultStep(t)
  \/ VaultCall(1)

VaultSpec == VaultInit /\ [][VaultNext]_vars

\* a vault saved by an earlier run of the program: one entry under SeedKey, with
\* its proof in block 1 of the persisted chain
SeedKey == <<"longenough1">>
SeedEnc == encryptData(StringifyEntries(<<EntryA>>), SeedKey, <<"s0">>, <<"i0">>)
SeedChain ==
  addBlockSync(MkChain(<<createGenesisBlock(0)>>),
               calculateHash(StringifyEncrypted(SeedEnc)), 0).bc.chain

\* what the callers of the entry functions pass
MissingId == <<"nosuchid">>
EntryC ==
  [NoEntry EXCEPT !.site = <<"x2">>, !.username = <<"y2">>, !.password = <<"z2">>]
EntryIds == {EntryA.id, MissingId}
EntryKeys == {SeedKey, <<"otherpass22">>}
NewKeys == {<<"newpass333">>, <<"short">>}
UpdateInputs ==
  {[NoUpdates EXCEPT !.set = {"password"}, !.password = <<"p2">>],
   [NoUpdates EXCEPT !.set = {"notes", "site"}, !.notes = <<"n2">>, !.site = <<>>]}

EntryOp(t) ==
  \/ \E k \in EntryKeys : AddVaultEntry(t, k, EntryC)
  \/ \E id \in EntryIds, up \in UpdateInputs : UpdateVaultEntry(t, SeedKey, id, up)
  \/ \E id \in EntryIds : DeleteVaultEntry(t, SeedKey, id)

\* the database is empty, or holds the vault of the earlier run
EntryInit ==
  /\ now = 0
  /\ blockchain = NullChain
  /\ \/ /\ dbChain = [u \in Users |-> NoRow]
        /\ dbVault = [u \in Users |-> NoVaultRow]
     \/ /\ dbChain = [u \in Users |-> Row(SeedChain)]
        /\ dbVault = [u \in Users |-> VaultRow(SeedEnc, 0)]
  /\ tasks = [t \in TaskIds |-> IF t = 0 THEN ModuleLoadTask ELSE IdleTask]
  /\ last = NoCall
  /\ restarts = 0
  /\ faults = 0
  /\ uuids = 0

\* one caller of the entry functions
EntryNext ==
  \/ \E t \in TaskIds : LedgerStep(t)
  \/ \E t \in UserTasks : VaultStep(t)
  \/ EntryOp(1)

EntrySpec == EntryInit /\ [][EntryNext]_vars

\* one caller of changeMasterPassword
MasterNext ==
  \/ \E t \in TaskIds : LedgerStep(t)
  \/ \E t \in UserTasks : VaultStep(t)
  \/ \E k \in EntryKeys, n \in NewKeys : ChangeMasterPassword(1, k, n)

MasterSpec == EntryInit /\ [][MasterNext]_vars

\* one caller that saves and one that loads, with the same passphrase
ConcVaultNext ==
  \/ \E t \in TaskIds : LedgerStep(t)
  \/ \E t \in UserTasks : VaultStep(t)
  \/ SaveVault(1, SeedKey, <<EntryA>>)
  \/ LoadVault(2, SeedKey)

ConcVaultSpec == Init /\ [][ConcVaultNext]_vars

\* two callers of addVaultEntry, each with an entry of its own
EntryD ==
  [NoEntry EXCEPT !.site = <<"x3">>, !.username = <<"y3">>, !.password = <<"z3">>]

ConcEntryNext ==
  \/ \E t \in UserTasks : SaveUser(t) \/ SaveWrite(t)
  \/ \E t \in UserTasks : VaultStep(t)
  \/ AddVaultEntry(1, SeedKey, EntryC)
  \/ AddVaultEntry(2, SeedKey, EntryD)

\* the database holds the vault of the earlier run, and the module-load
\* initialization has read the persisted chain
SeededInit ==
  /\ now = 0
  /\ blockchain = MkChain(SeedChain)
  /\ dbChain = [u \in Users |-> Row(SeedChain)]
  /\ dbVault = [u \in Users |-> VaultRow(SeedEnc, 0)]
  /\ tasks = [t \in TaskIds |-> IdleTask]
  /\ last = NoCall
  /\ restarts = 0
  /\ faults = 0
  /\ uuids = 0

ConcEntrySpec == SeededInit /\ [][ConcEntryNext]_vars

\* the database of a new user once the module-load initialization has created
\* and persisted the genesis block
FreshInit ==
  /\ now = 0
  /\ blockchain = MkChain(<<createGenesisBlock(0)>>)
  /\ dbChain = [u \in Users |-> Row(<<createGenesisBlock(0)>>)]
  /\ dbVault = [u \in Users |-> NoVaultRow]
  /\ tasks = [t \in TaskIds |-> IdleTask]
  /\ last = NoCall
  /\ restarts = 0
  /\ faults = 0
  /\ uuids = 0

\* what the caller of importVault passes: a list with a new entry, a list with
\* an entry that has no password, and a text that is no JSON array
ImportC == StringifyEntries(<<EntryC>>)
ImportNoPassword == StringifyEntries(<<[EntryD EXCEPT !.password = <<>>]>>)
ImportData == {ImportC, ImportNoPassword, <<"{", "}">>}

\* one caller of all the functions that persist the vault, with one passphrase
PersistCall(t) ==
  \/ \E l \in {<<EntryA>>, <<[EntryA EXCEPT !.password = <<>>]>>} : SaveVault(t, SeedKey, l)
  \/ \E e \in {EntryC, [EntryC EXCEPT !.username = <<>>]} : AddVaultEntry(t, SeedKey, e)
  \/ \E id \in {EntryA.id, Uuid(1)}, up \in UpdateInputs : UpdateVaultEntry(t, SeedKey, id, up)
  \/ \E id \in {EntryA.id, Uuid(1)} : DeleteVaultEntry(t, SeedKey, id)
  \/ \E data \in ImportData : ImportVault(t, SeedKey, data)
  \/ \E n \in NewKeys : ChangeMasterPassword(t, SeedKey, n)

PersistNext ==
  \/ SaveUser(1)
  \/ SaveWrite(1)
  \/ VaultStep(1)
  \/ PersistCall(1)

PersistSpec == FreshInit /\ [][PersistNext]_vars

\* someone with access to the database rewrites the hash field of block 1 of a
\* persisted chain, directly in storage
TamperStorage(u) ==
  /\ dbChain[u].exists
  /\ Len(dbChain[u].blocks) >= 2
  /\ dbChain[u].blocks[2].hash # TamperedHash
  /\ dbChain' = [dbChain EXCEPT ![u].blocks[2].hash = TamperedHash]
  /\ last' = NoCall
  /\ UNCHANGED <<now, blockchain, dbVault, tasks, restarts, faults, uuids>>

\* one caller, and storage that is tampered with
TamperNext ==
  \/ Next
  \/ \E u \in Users : TamperStorage(u)

TamperSpec == Init /\ [][TamperNext]_vars

\* one caller of the vault, and storage that is tampered with
VaultTamperNext ==
  \/ VaultNext
  \/ \E u \in Users : TamperStorage(u)

VaultTamperSpec == VaultInit /\ [][VaultTamperNext]_vars

\* another instance of the program, run by the same owner, appends a block to
\* the chain it read from storage and persists it, while this instance has no
\* call in flight
ForeignAppend(u) ==
  /\ \A t \in TaskIds : ~Active(tasks[t])
  /\ dbChain[u].exists
  /\ Len(dbChain[u].blocks) >= 1
  /\ Len(dbChain[u].blocks) < MaxBlocks
  /\ ~findBlockByDataHash(MkChain(dbChain[u].blocks), calculateHash(ForeignData)).found
  /\ dbChain' = [dbChain EXCEPT
                   ![u] = Row(addBlockSync(MkChain(dbChain[u].blocks),
                                           calculateHash(ForeignData), now).bc.chain)]
  /\ last' = NoCall
  /\ UNCHANGED <<now, blockchain, dbVault, tasks, restarts, faults, uuids>>

\* one caller of storeVaultProof, and another instance that appends
ForeignNext ==
  \/ \E t \in TaskIds : LedgerStep(t)
  \/ \E d \in DataPool : StoreVaultProof(1, d)
  \/ \E u \in Users : ForeignAppend(u)

ForeignSpec == Init /\ [][ForeignNext]_vars

\* a vault of two entries saved by an earlier run of the program, with its
\* proof in block 1 of the chain, which the module-load initialization has read
PairEnc == encryptData(StringifyEntries(ListBA), SeedKey, <<"s0">>, <<"i0">>)
PairChain ==
  addBlockSync(MkChain(<<createGenesisBlock(0)>>),
               calculateHash(StringifyEncrypted(PairEnc)), 0).bc.chain

PairInit ==
  /\ now = 0
  /\ blockchain = MkChain(PairChain)
  /\ dbChain = [u \in Users |-> Row(PairChain)]
  /\ dbVault = [u \in Users |-> VaultRow(PairEnc, 0)]
  /\ tasks = [t \in TaskIds |-> IdleTask]
  /\ last = NoCall
  /\ restarts = 0
  /\ faults = 0
  /\ uuids = 0

\* one caller of updateVaultEntry, and a clock
UpdateNext ==
  \/ Tick
  \/ SaveUser(1)
  \/ SaveWrite(1)
  \/ VaultStep(1)
  \/ \E id \in {EntryA.id, EntryB.id, MissingId}, up \in UpdateInputs :
       UpdateVaultEntry(1, SeedKey, id, up)

UpdateSpec == PairInit /\ [][UpdateNext]_vars

\* one caller of importVault, with the passphrase of the vault or another one
ImportNext ==
  \/ SaveUser(1)
  \/ SaveWrite(1)
  \/ VaultStep(1)
  \/ \E k \in EntryKeys, data \in ImportData : ImportVault(1, k, data)

ImportSpec == SeededInit /\ [][ImportNext]_vars

\* what the caller of searchVault asks for: the site of EntryA in capitals, and
\* a text that no entry holds
Queries == {<<"X">>, <<"q">>}

\* one caller of the functions that read, and a process that restarts
ReadCall(t) ==
  \/ \E k \in EntryKeys : LoadVault(t, k)
  \/ \E k \in EntryKeys, q \in Queries : SearchVault(t, k, q)
  \/ \E k \in EntryKeys : ExportVault(t, k)
  \/ \E d \in {StringifyEncrypted(SeedEnc), <<"d1">>} : VerifyVaultProof(t, d)
  \/ GetBlockchainInfo(t)

ReadNext ==
  \/ Restart
  \/ \E t \in TaskIds : InitUser(t) \/ InitSelect(t) \/ InitGot(t) \/ InitSave(t)
  \/ VaultLoadUser(1)
  \/ VaultLoadSelect(1)
  \/ VaultLoadGot(1)
  \/ ReadCall(1)

ReadSpec == SeededInit /\ [][ReadNext]_vars

\* ------------------------------------------------------------------ IPC
\* the id of a user as the renderer holds it (useAuthStore): a string
UserIdString(u) == <<"id-of-" \o u>>

\* SecurityApi: this.invoke(channel, userId, masterKey, ...rest)
SecurityApiArgs(userId, masterKey, rest) == <<userId, masterKey>> \o rest

\* invoke and handle: the arguments of a request that vaultIpcSchema accepts
\* reach the handler of the channel one by one, in the order they were sent
Deliver(args) == args

\* what a function that expects an array or an object finds in a string: its
\* characters, none of which has a site, a username or a password
CharsAsEntries(str) == [i \in 1..StrLen(str) |-> NoEntry]
StringAsEntry(str) == NoEntry
StringAsUpdates(str) == NoUpdates

\* the handlers of the vault channels: `async (masterKey, entries) =>
\* saveVault(masterKey, entries)` and the like bind the arguments by position
VaultSaveChannel(t, u, masterKey, entries) ==
  LET args == Deliver(SecurityApiArgs(UserIdString(u), masterKey, <<entries>>))
  IN  SaveVault(t, args[1], CharsAsEntries(args[2]))

VaultLoadChannel(t, u, masterKey) ==
  LET args == Deliver(SecurityApiArgs(UserIdString(u), masterKey, <<>>))
  IN  LoadVault(t, args[1])

VaultAddEntryChannel(t, u, masterKey, entry) ==
  LET args == Deliver(SecurityApiArgs(UserIdString(u), masterKey, <<entry>>))
  IN  AddVaultEntry(t, args[1], StringAsEntry(args[2]))

VaultUpdateEntryChannel(t, u, masterKey, entryId, updates) ==
  LET args == Deliver(SecurityApiArgs(UserIdString(u), masterKey, <<entryId, updates>>))
  IN  UpdateVaultEntry(t, args[1], args[2], StringAsUpdates(args[3]))

VaultDeleteEntryChannel(t, u, masterKey, entryId) ==
  LET args == Deliver(SecurityApiArgs(UserIdString(u), masterKey, <<entryId>>))
  IN  DeleteVaultEntry(t, args[1], args[2])

VaultSearchChannel(t, u, masterKey, query) ==
  LET args == Deliver(SecurityApiArgs(UserIdString(u), masterKey, <<query>>))
  IN  SearchVault(t, args[1], args[2])

\* the renderer of the signed-in user sends requests on the vault channels
IpcRequest(t) ==
  \E u \in Users, masterKey \in EntryKeys :
    \/ VaultSaveChannel(t, u, masterKey, <<EntryA>>)
    \/ VaultLoadChannel(t, u, masterKey)
    \/ VaultAddEntryChannel(t, u, masterKey, EntryC)
    \/ \E up \in UpdateInputs : VaultUpdateEntryChannel(t, u, masterKey, EntryA.id, up)
    \/ VaultDeleteEntryChannel(t, u, masterKey, EntryA.id)
    \/ VaultSearchChannel(t, u, masterKey, <<"X">>)

IpcNext ==
  \/ VaultLoadUser(1)
  \/ VaultLoadSelect(1)
  \/ VaultLoadGot(1)
  \/ IpcRequest(1)

IpcSpec == FreshInit /\ [][IpcNext]_vars

\* one caller that stores a proof of the data another instance has stored a
\* proof of, and a process that restarts
DedupNext ==
  \/ Restart
  \/ \E t \in TaskIds : LedgerStep(t)
  \/ StoreVaultProof(1, ForeignData)
  \/ \E u \in Users : ForeignAppend(u)

DedupSpec == Init /\ [][DedupNext]_vars

\* two users share the machine: either may be signed in at any time
OtherUser == "u2"

OwnerInit ==
  /\ now = 0
  /\ blockchain = NullChain
  /\ dbChain = [u \in Users \cup {OtherUser} |-> NoRow]
  /\ dbVault = [u \in Users \cup {OtherUser} |-> NoVaultRow]
  /\ tasks = [t \in TaskIds |-> IF t = 0 THEN ModuleLoadTask ELSE IdleTask]
  /\ last = NoCall
  /\ restarts = 0
  /\ faults = 0
  /\ uuids = 0

OwnerNext ==
  \/ \E t \in TaskIds : LedgerStep(t)
  \/ StoreVaultProof(1, <<"d1">>)
  \/ StoreVaultProof(2, <<"d2">>)

OwnerSpec == OwnerInit /\ [][OwnerNext]_vars

\* one caller that never calls resetBlockchain
AppendNext ==
  \/ Environment
  \/ \E t \in TaskIds : LedgerStep(t)
  \/ \E d \in DataPool : StoreVaultProof(1, d)
  \/ \E d \in DataPool : VerifyVaultProof(1, d)
  \/ GetBlockchainInfo(1)

AppendSpec == Init /\ [][AppendNext]_vars

\* several callers: their appends overlap with each other and with the
\* module-load initialization
ConcNext ==
  \/ \E t \in TaskIds : LedgerStep(t)
  \/ \E t \in UserTasks, d \in DataPool : StoreVaultProof(t, d)

ConcSpec == Init /\ [][ConcNext]_vars

\* ================================================================ claims
ChainLinked(chain) ==
  /\ Len(chain) > 0
  /\ chain[1].index = 0
  /\ chain[1].previousHash = <<"0">>
  /\ chain[1].dataHash = <<"Genesis Block">>
  /\ \A i \in 2..Len(chain) :
       /\ chain[i].index = i - 1
       /\ chain[i].previousHash = chain[i - 1].hash

\* two calls of one caller, the second awaited right after the first
Pair(op1, op2) ==
  /\ last.has /\ last.op = op2
  /\ last.first.has /\ last.first.op = op1

\* C1: storeVaultProof called twice in succession with the same vault data on a
\* ledger holding n blocks leaves n+1 blocks, and the second call returns
\* success=true with the block (index, nonce, hash) the first one returned.
C1_StoreTwice ==
  (/\ Pair("store", "store")
   /\ last.data = last.first.data
   /\ last.first.n0 >= 1
   /\ last.first.ret.success
   /\ last.first.n1 = last.first.n0 + 1)
  => /\ last.ret.success
     /\ last.ret.hasBlock
     /\ last.ret.block = last.first.ret.block
     /\ Len(blockchain.chain) = last.first.n0 + 1

C4_FlagsIndependent ==
  (last.has /\ last.op = "verify")
  => /\ last.ret.verified = findBlockByDataHash(blockchain, calculateHash(last.data)).found
     /\ last.ret.chainValid = verifyBlockchain(blockchain)

\* C4 (amended): `chainValid` is true exactly when the chain validates, and
\* `verified` is true exactly when the chain validates and some block has the
\* fingerprint of the queried data as dataHash: on an invalid chain verified is
\* false even though the data is there.
C4_VerifiedOnValidChain ==
  (last.has /\ last.op = "verify")
  => /\ last.ret.chainValid = verifyBlockchain(blockchain)
     /\ last.ret.verified =
          (verifyBlockchain(blockchain)
           /\ findBlockByDataHash(blockchain, calculateHash(last.data)).found)
     /\ last.ret.verified
          => last.ret.block = findBlockByDataHash(blockchain, calculateHash(last.data)).block

\* a verification of data that is in a chain that does not validate
C4_Witness ==
  /\ last.has /\ last.op = "verify"
  /\ ~verifyBlockchain(blockchain)
  /\ findBlockByDataHash(blockchain, calculateHash(last.data)).found
  /\ ~last.ret.verified /\ ~last.ret.chainValid

\* one field of a block changed without recomputing any hash
Fields == {"index", "timestamp", "dataHash", "previousHash", "nonce", "hash"}

Changed(block, f) ==
  CASE f = "index"        -> [block EXCEPT !.index = @ + 1]
    [] f = "nonce"        -> [block EXCEPT !.nonce = @ + 1]
    [] f = "timestamp"    -> [block EXCEPT !.timestamp = @ \o <<"x">>]
    [] f = "dataHash"     -> [block EXCEPT !.dataHash = @ \o <<"x">>]
    [] f = "previousHash" -> [block EXCEPT !.previousHash = @ \o <<"x">>]
    [] OTHER              -> [block EXCEPT !.hash = @ \o <<"x">>]

ChangedAt(chain, i, f) == [chain EXCEPT ![i] = Changed(chain[i], f)]

\* C3: changing any single field of any one block, the genesis block included,
\* of a chain made by genesis creation and appends makes verifyBlockchain
\* report the chain invalid.
C3_TamperDetected ==
  ~blockchain.isNull =>
    \A i \in 1..Len(blockchain.chain), f \in Fields :
      ~verifyBlockchain(MkChain(ChangedAt(blockchain.chain, i, f)))

IsPrefix(a, b) == Len(a) <= Len(b) /\ SubSeq(b, 1, Len(a)) = a

\* C5: while no resetBlockchain is called, every step leaves each chain, in
\* memory and persisted, with the chain before the step as a prefix.
C5_AppendOnly ==
  [][/\ (~blockchain.isNull /\ ~blockchain'.isNull)
         => IsPrefix(blockchain.chain, blockchain'.chain)
     /\ \A u \in Users :
          dbChain[u].exists
            => dbChain'[u].exists /\ IsPrefix(dbChain[u].blocks, dbChain'[u].blocks)]_vars

\* C6: a storeVaultProof whose save of the chain failed returns success=false
\* with no block, and the chain in memory holds no block for its data.
C6_FailedSaveReported ==
  (last.has /\ last.op = "store" /\ last.saveFailed)
  => /\ ~last.ret.success
     /\ ~last.ret.hasBlock
     /\ ~findBlockByDataHash(blockchain, calculateHash(last.data)).found

\* the passphrase is missing or shorter than 8 characters, or an entry has an
\* empty site, username or password
Rejectable(key, entries) ==
  \/ StrLen(key) < 8
  \/ \E i \in 1..Len(entries) :
       entries[i].site = <<>> \/ entries[i].username = <<>> \/ entries[i].password = <<>>

\* C7: a saveVault whose passphrase is missing or shorter than 8 characters, or
\* one of whose entries has an empty site, username or password, returns
\* success=false in the step of the call, which changes neither the persisted
\* blob nor the chain in memory or persisted; no such call gets past validation.
C7_SaveValidates ==
  [][/\ (/\ last'.has /\ last'.op = "saveVault"
          /\ Rejectable(last'.key, last'.entries))
         => (/\ ~last'.ret.success
             /\ ~Active(tasks[last'.t])
             /\ UNCHANGED <<dbVault, blockchain, dbChain>>)
     /\ \A t \in UserTasks :
          (Active(tasks'[t]) /\ tasks'[t].op = "saveVault")
            => ~Rejectable(tasks'[t].key, tasks'[t].entries)]_vars

\* a rejected save while a blob and a chain are persisted
C7_Witness ==
  /\ last.has /\ last.op = "saveVault"
  /\ StrLen(last.key) >= 8 /\ Rejectable(last.key, last.entries)
  /\ ~last.ret.success
  /\ \E u \in Users : dbVault[u].exists /\ dbChain[u].exists

\* C8: a saveVault whose blob write succeeded and whose storeVaultProof
\* returned success=false returns success=false.
C8_FailedProofReported ==
  (/\ last.has /\ last.op = "saveVault" /\ last.blob = "written"
   /\ last.inner.has /\ ~last.inner.success)
  => ~last.ret.success

SavedWith(enc, p) == ~decryptData(enc, p).throws

WrongKey(enc, key) ==
  \E p \in {in[1] : in \in SaveInputs} : p # key /\ SavedWith(enc, p)

\* C10: a loadVault(p2) that reads a blob saved with p1 # p2 returns
\* success=false, no entries and 'Invalid master password', and no step of it
\* changes the persisted blob, the chain in memory or a persisted chain.
C10_WrongKeyRejected ==
  [][/\ (last'.has /\ last'.op = "loadVault" /\ last'.blob = "row"
          /\ WrongKey(last'.enc, last'.key))
         => (/\ ~last'.ret.success
             /\ last'.ret.entries = <<>>
             /\ last'.ret.message = "Invalid master password")
     /\ \A t \in UserTasks :
          (/\ tasks[t].op = "loadVault" /\ tasks[t].fn = "verify"
           /\ WrongKey(tasks[t].enc, tasks[t].key)
           /\ tasks'[t] # tasks[t] /\ restarts' = restarts)
          => (/\ dbVault' = dbVault
              /\ ~blockchain.isNull => blockchain' = blockchain
              /\ \A u \in Users : dbChain[u].exists => dbChain'[u] = dbChain[u])]_vars

\* C11: a loadVault that read the blob and whose passphrase decrypts it returns
\* success=true with the decrypted entries whatever verifyVaultProof returned,
\* and its blockchainVerification carries the verified and chainValid values
\* that verifyVaultProof returned.
C11_VerificationNeverBlocks ==
  (/\ last.has /\ last.op = "loadVault" /\ last.blob = "row"
   /\ SavedWith(last.enc, last.key))
  => /\ last.ret.success
     /\ last.ret.entries = ParseEntries(decryptData(last.enc, last.key).text)
     /\ last.inner.has
     /\ last.ret.hasVerification
     /\ last.ret.verified = last.inner.verified
     /\ last.ret.chainValid = last.inner.chainValid

\* a load of two entries whose verification found the chain invalid
C11_Witness ==
  /\ last.has /\ last.op = "loadVault" /\ last.blob = "row"
  /\ SavedWith(last.enc, last.key)
  /\ ~last.inner.chainValid /\ ~last.inner.verified
  /\ last.ret.success /\ last.ret.entries = ListBA

\* C12: a loadVault with the right passphrase that is called after the hash
\* field of block 1 of the owner's persisted chain was changed in storage, and
\* that read the blob, returns the decrypted entries and reports
\* chainValid = false, also when the process had the chain in memory before.
C12_TamperSeenByLoad ==
  (/\ last.has /\ last.op = "loadVault" /\ last.tampered
   /\ last.blob = "row" /\ SavedWith(last.enc, last.key))
  => /\ last.ret.success
     /\ last.ret.entries = ParseEntries(decryptData(last.enc, last.key).text)
     /\ ~last.ret.chainValid

\* C13: a loadVault whose read found no blob for the owner returns success=true
\* with no entries; one whose read of the blob failed (a storage error, or
\* nobody signed in) returns success=false.
C13_ReadFailurePropagated ==
  (last.has /\ last.op = "loadVault")
  => /\ last.blob = "norow" => (last.ret.success /\ last.ret.entries = <<>>)
     /\ last.blob \in {"error", "nouser"} => ~last.ret.success

\* the list that the owner's persisted blob decrypts to under a passphrase
PersistedEntries(vaults, u, key) ==
  IF ~vaults[u].exists THEN <<>>
  ELSE ParseEntries(decryptData(FromRow(vaults[u]), key).text)

Contains(entries, e) == \E i \in 1..Len(entries) : entries[i] = e

\* C14: when an addVaultEntry returns success after another addVaultEntry for
\* the same owner returned success while it was in flight, both having read the
\* blob with the right passphrase, the persisted list holds both new entries
\* and every entry persisted when it was called.
C14_AddsSerialized ==
  (/\ last.has /\ last.op = "addEntry" /\ last.ret.success /\ last.read = "row"
   /\ last.peer.has /\ last.peer.success /\ last.peer.read = "row")
  => \A u \in Users :
       LET persisted == PersistedEntries(dbVault, u, last.key)
           before == PersistedEntries(last.vault0, u, last.key)
       IN  /\ Contains(persisted, last.entry)
           /\ Contains(persisted, last.peer.entry)
           /\ \A i \in 1..Len(before) : Contains(persisted, before[i])

\* C15: a loadVault that returns while a saveVault for the same owner is in
\* flight, and that read the blob this save wrote, finds the attestation block
\* of this blob in the ledger: it reports verified = true.
C15_LoadSeesWholeSave ==
  (/\ last.has /\ last.op = "loadVault" /\ last.blob = "row")
  => \A t \in UserTasks :
       (/\ Active(tasks[t]) /\ tasks[t].op = "saveVault"
        /\ tasks[t].blob = "written" /\ tasks[t].enc = last.enc)
       => last.ret.verified

\* a block that another instance appended is in the chain
HasForeign(blocks) == \E i \in 1..Len(blocks) : blocks[i].dataHash = calculateHash(ForeignData)

\* C16: the step in which the save of a storeVaultProof's append answers leaves
\* in the persisted chain every block that another instance had appended and
\* persisted before it.
C16_ForeignBlockKept ==
  [][\A t \in UserTasks, u \in Users :
       (/\ tasks[t].op = "store" /\ tasks[t].pc = "save_write"
        /\ tasks'[t] # tasks[t] /\ restarts' = restarts
        /\ HasForeign(dbChain[u].blocks))
       => HasForeign(dbChain'[u].blocks)]_vars

\* C17: when addVaultEntry returns success, the persisted list is the list that
\* was persisted when it was called with the new entry appended at the end, and
\* the id of the new entry is the id of no entry of that list.
C17_AddsOneEntry ==
  (last.has /\ last.op = "addEntry" /\ last.ret.success)
  => \A u \in Users :
       LET before == PersistedEntries(last.vault0, u, last.key)
       IN  /\ PersistedEntries(dbVault, u, last.key) = Append(before, last.entry)
           /\ \A i \in 1..Len(before) : before[i].id # last.entry.id

\* C18: an updateVaultEntry or deleteVaultEntry whose entryId is the id of no
\* entry of the list it loaded returns success=false and 'Entry not found' with
\* the persisted blob as it was when it was called, and no step of it changes
\* the chain in memory or a persisted chain.
C18_EntryNotFound ==
  [][/\ (/\ last'.has /\ last'.op \in {"updateEntry", "deleteEntry"}
          /\ last'.load.success
          /\ \A i \in 1..Len(last'.load.entries) :
               last'.load.entries[i].id # last'.entryId)
         => (/\ ~last'.ret.success
             /\ last'.ret.message = "Entry not found"
             /\ dbVault' = last'.vault0)
     /\ \A t \in UserTasks :
          (/\ tasks[t].op \in {"updateEntry", "deleteEntry"}
           /\ tasks[t].entryId = MissingId
           /\ tasks'[t] # tasks[t] /\ restarts' = restarts)
          => (/\ dbVault' = dbVault
              /\ ~blockchain.isNull => blockchain' = blockchain
              /\ \A u \in Users : dbChain[u].exists => dbChain'[u] = dbChain[u])]_vars

\* C19: a changeMasterPassword(old, new) that returns success was called with
\* a new passphrase of at least 8 characters while a blob that old decrypts was
\* persisted, and leaves a blob that new decrypts to the entries the old blob
\* held and that old, when it differs from new, no longer decrypts; one that
\* returns failure leaves the persisted blob as it was.
C19_PasswordChanged ==
  (last.has /\ last.op = "changePassword")
  => \A u \in Users :
       IF last.ret.success
       THEN /\ StrLen(last.newKey) >= 8
            /\ last.vault0[u].exists
            /\ SavedWith(FromRow(last.vault0[u]), last.key)
            /\ SavedWith(FromRow(dbVault[u]), last.newKey)
            /\ PersistedEntries(dbVault, u, last.newKey)
                 = PersistedEntries(last.vault0, u, last.key)
            /\ last.newKey # last.key => ~SavedWith(FromRow(dbVault[u]), last.key)
       ELSE dbVault[u] = last.vault0[u]

\* C20: in every state in which no saveVault is in flight and a blob is
\* persisted for an owner, the owner's persisted chain holds a block whose
\* dataHash is the fingerprint of that blob as loadVault rebuilds and
\* serializes it.
C20_BlobAttested ==
  (\A t \in UserTasks : ~(Active(tasks[t]) /\ tasks[t].op = "saveVault"))
  => \A u \in Users :
       dbVault[u].exists
         => findBlockByDataHash(MkChain(dbChain[u].blocks),
                                calculateHash(StringifyEncrypted(FromRow(dbVault[u])))).found

\* C21: a verifyVaultProof(d) called right after a storeVaultProof(d) that
\* returned success, with no reset, returns verified=true and chainValid=true
\* with the block that storeVaultProof returned.
C21_StoreThenVerify ==
  (/\ Pair("store", "verify")
   /\ last.data = last.first.data
   /\ last.first.ret.success)
  => /\ last.ret.verified
     /\ last.ret.chainValid
     /\ last.ret.hasBlock
     /\ last.ret.block = last.first.ret.block

\* the appended blocks (all but the first) of a persisted chain
Appended(row) == {row.blocks[i] : i \in 2..Len(row.blocks)}

\* C22: the step in which the save of a storeVaultProof's append for an owner
\* answers changes no other owner's persisted chain, and puts in this owner's
\* persisted chain no appended block that is persisted under another owner.
C22_LedgersPerOwner ==
  [][\A t \in UserTasks :
       (/\ tasks[t].op = "store" /\ tasks[t].pc = "save_write"
        /\ tasks'[t] # tasks[t] /\ restarts' = restarts)
       => \A u \in Accounts :
            IF u # tasks[t].uid
            THEN dbChain'[u] = dbChain[u]
            ELSE \A v \in Accounts \ {u} :
                   Appended(dbChain'[u]) \cap Appended(dbChain[v]) = {}]_vars

\* every chain the program holds: the one in memory and the persisted ones
HeldChains ==
  {dbChain[u].blocks : u \in Accounts}
    \cup (IF blockchain.isNull THEN {} ELSE {blockchain.chain})

ProofOfWork(block) == StartsWith(block.hash, Repeat("0", Difficulty))

PersistKeys == {SeedKey} \cup NewKeys

\* C24: every entry of the list that a persisted blob decrypts to has a
\* non-empty site, username and password, whatever saveVault, addVaultEntry,
\* updateVaultEntry, deleteVaultEntry, importVault and changeMasterPassword
\* calls were made.
C24_NoEmptyFieldPersisted ==
  \A u \in Users, k \in PersistKeys :
    (dbVault[u].exists /\ SavedWith(FromRow(dbVault[u]), k))
    => LET persisted == PersistedEntries(dbVault, u, k)
       IN  \A i \in 1..Len(persisted) :
             /\ persisted[i].site # <<>>
             /\ persisted[i].username # <<>>
             /\ persisted[i].password # <<>>

\* an update that sets the site of a persisted entry to the empty string has
\* returned
C24_Witness ==
  /\ last.has /\ last.op = "updateEntry"
  /\ "site" \in last.updates.set /\ last.updates.site = <<>>
  /\ last.load.success
  /\ \E i \in 1..Len(last.load.entries) : last.load.entries[i].id = last.entryId
  /\ \E u \in Users : dbVault[u].exists

\* C25: when a resetBlockchain whose save succeeded returns, the chain in
\* memory is one genesis block (index 0, previousHash '0') and the persisted
\* chain is that chain; a verifyVaultProof called at once after a
\* resetBlockchain reports verified=false with chainValid=true.
C25_ResetLeavesGenesis ==
  /\ (last.has /\ last.op = "reset" /\ ~last.saveFailed)
     => /\ ~blockchain.isNull
        /\ Len(blockchain.chain) = 1
        /\ blockchain.chain[1].index = 0
        /\ blockchain.chain[1].previousHash = <<"0">>
        /\ \A u \in Users : dbChain[u].blocks = blockchain.chain
  /\ Pair("reset", "verify") => (~last.ret.verified /\ last.ret.chainValid)

\* the blocks of a chain that are proofs of the data
ProofsOf(chain, data) ==
  {i \in 1..Len(chain) : chain[i].dataHash = calculateHash(data)}

\* C26: no step of a storeVaultProof(d) that was called while the ledger was
\* uninitialized, taken while the owner's persisted chain holds a block with
\* the fingerprint of d, leaves two blocks with that fingerprint in the chain
\* in memory.
C26_NoSecondProof ==
  [][\A t \in UserTasks :
       (/\ tasks[t].op = "store" /\ tasks[t].n0 = -1
        /\ tasks'[t] # tasks[t] /\ restarts' = restarts
        /\ \E u \in Users : ProofsOf(dbChain[u].blocks, tasks[t].data) # {})
       => Cardinality(ProofsOf(blockchain'.chain, tasks[t].data)) <= 1]_vars

\* what the member `name` of an entry is after an update
Supplied(updates, name, old) ==
  IF name \in updates.set
  THEN CASE name = "site" -> updates.site [] name = "username" -> updates.username
         [] name = "password" -> updates.password [] OTHER -> updates.notes
  ELSE old

\* C27: when updateVaultEntry returns success, the persisted list has the
\* length of the list that was persisted when it was called, holds at the
\* position of the entry with the given id an entry with the same id and
\* createdAt, the supplied values for the members that were supplied and the old
\* values for the others, and an updatedAt taken from the clock, and holds every
\* other entry as it was.
C27_UpdateChangesOne ==
  (last.has /\ last.op = "updateEntry" /\ last.ret.success)
  => \A u \in Users :
       LET before == PersistedEntries(last.vault0, u, last.key)
           after == PersistedEntries(dbVault, u, last.key)
       IN  /\ Len(after) = Len(before)
           /\ \E i \in 1..Len(before) : before[i].id = last.entryId
           /\ \A i \in 1..Len(before) :
                IF before[i].id # last.entryId
                THEN after[i] = before[i]
                ELSE /\ after[i].id = before[i].id
                     /\ after[i].createdAt = before[i].createdAt
                     /\ after[i].site = Supplied(last.updates, "site", before[i].site)
                     /\ after[i].username = Supplied(last.updates, "username", before[i].username)
                     /\ after[i].password = Supplied(last.updates, "password", before[i].password)
                     /\ after[i].notes = Supplied(last.updates, "notes", before[i].notes)
                     /\ \E n \in 0..now : after[i].updatedAt = IsoString(n)
                     /\ last.ret.entry = <<after[i]>>

\* the second of two entries got a new password, at a later time than it was
\* created
C27_Witness ==
  /\ last.has /\ last.op = "updateEntry" /\ last.ret.success
  /\ last.entryId = EntryA.id
  /\ "password" \in last.updates.set
  /\ \A u \in Users :
       LET after == PersistedEntries(dbVault, u, last.key)
       IN  /\ Len(after) = 2
           /\ after[2].password = last.updates.password
           /\ after[2].updatedAt # after[2].createdAt

\* C28: an importVault that read the persisted blob and was called with a
\* passphrase that does not decrypt it returns failure and leaves the blob as
\* it was when it was called; when an importVault that read the persisted blob
\* returns success, every entry that was persisted when it was called is in the
\* persisted list.
C28_ImportKeepsEntries ==
  (last.has /\ last.op = "import" /\ last.read = "row")
  => \A u \in Users :
       /\ (last.vault0[u].exists /\ ~SavedWith(FromRow(last.vault0[u]), last.key))
          => (~last.ret.success /\ dbVault[u] = last.vault0[u])
       /\ last.ret.success
          => LET before == PersistedEntries(last.vault0, u, SeedKey)
             IN  /\ SavedWith(FromRow(dbVault[u]), SeedKey)
                 /\ \A i \in 1..Len(before) :
                      Contains(PersistedEntries(dbVault, u, SeedKey), before[i])

Reads == {"loadVault", "search", "export", "verify", "info"}

\* task t takes a step of a read that was called on an initialized ledger
ReadStep(t) ==
  /\ tasks'[t] # tasks[t]
  /\ restarts' = restarts
  /\ IF Active(tasks[t])
     THEN tasks[t].op \in Reads /\ tasks[t].n0 # -1
     ELSE /\ ~blockchain.isNull
          /\ \/ Active(tasks'[t]) /\ tasks'[t].op \in Reads
             \/ last'.has /\ last'.t = t /\ last'.op \in Reads

\* C29: no step of a loadVault, searchVault, exportVault, verifyVaultProof or
\* getBlockchainInfo that was called on an initialized ledger changes the
\* persisted blob, the chain in memory or a persisted chain.
C29_ReadsChangeNothing ==
  [][\A t \in UserTasks :
       ReadStep(t) => UNCHANGED <<dbVault, blockchain, dbChain>>]_vars

\* each of the five reads has returned on an initialized ledger: here a search
\* that found the entry
C29_Witness ==
  /\ last.has /\ last.op = "search" /\ last.n0 # -1
  /\ last.ret.success /\ last.ret.entries = <<EntryA>>
  /\ last.inner.has /\ last.inner.verified

\* C30: every function of the vault that a request of SecurityApi makes run
\* has as its passphrase a masterKey that SecurityApi sent, never a userId.
C30_MasterKeyBound ==
  /\ \A t \in UserTasks :
       Active(tasks[t]) => tasks[t].key \in EntryKeys
  /\ last.has => last.key \in EntryKeys

====
